---- MODULE Spec2Model ----
(***************************************************************************)
(* Sensor API: ingestion of sensor readings and aggregated statistics      *)
(* queries over them (src/src/sensor_api).                                 *)
(*                                                                         *)
(* Texts (sensor ids, locations, metric names, raw query-string values)    *)
(* are sequences of chunks; a chunk is a run of characters that holds no   *)
(* whitespace and no separator, or is one whitespace or separator          *)
(* character.  "s1" is <<"s1">>, " s1" is <<" ", "s1">>.                   *)
(* Optional values are sets: None is {} and Some(x) is {x}.                *)
(* Floats are pairs <<class, n>>: <<"fin", n>>, <<"nan", 0>>,              *)
(* <<"inf", 1>>, <<"inf", -1>>.                                            *)
(* Time is counted in whole days.                                          *)
(***************************************************************************)
EXTENDS Integers, Sequences, FiniteSets, TLC

VARIABLES
  store,      \* the sensor_metrics table: a set of SensorMetric rows
  now,        \* the current UTC instant
  sessions,   \* the request slots that hold an open database session
  req,        \* request slot -> the state of the handler running in it
  vin,        \* the arguments of a validate_ingest_payload call
  vout        \* what that call did

vars == <<store, now, sessions, req, vin, vout>>

----------------------------------------------------------------------------
(* Bounds of the model *)

MaxMetrics == 2     \* items in an ingested metrics mapping
MaxRows == 2        \* rows the table holds
MaxTicks == 1       \* steps of the clock
MaxChunks == 5      \* chunks of a raw sensors or metrics parameter

----------------------------------------------------------------------------
(* Optional values, texts, floats *)

None == {}
Some(x) == {x}
The(o) == CHOOSE x \in o : TRUE

T(c) == <<c>>
EmptyText == <<>>

IsSpace(c) == c \in {" ", "\t"}

\* str.strip(): drop the leading and the trailing whitespace
RECURSIVE LStrip(_)
LStrip(s) ==
  IF s = <<>> THEN <<>>
  ELSE IF IsSpace(Head(s)) THEN LStrip(Tail(s)) ELSE s

RECURSIVE RStrip(_)
RStrip(s) ==
  IF s = <<>> THEN <<>>
  ELSE IF IsSpace(s[Len(s)]) THEN RStrip(SubSeq(s, 1, Len(s) - 1)) ELSE s

Strip(s) == RStrip(LStrip(s))

\* str.lower(), chunk by chunk
LowerChunk(c) ==
  CASE c = "AVERAGE" -> "average"
    [] c = "Average" -> "average"
    [] c = "aVeRaGe" -> "average"
    [] c = "MIN" -> "min"
    [] c = "Min" -> "min"
    [] c = "mIn" -> "min"
    [] c = "MAX" -> "max"
    [] c = "Max" -> "max"
    [] c = "SUM" -> "sum"
    [] c = "Sum" -> "sum"
    [] c = "JSON" -> "json"
    [] c = "Application/" -> "application/"
    [] c = "MEDIAN" -> "median"
    [] OTHER -> c

Lower(s) == [i \in DOMAIN s |-> LowerChunk(s[i])]

\* str.split(sep): the texts between the separators
RECURSIVE SplitFrom(_, _, _)
SplitFrom(s, sep, cur) ==
  IF s = <<>> THEN <<cur>>
  ELSE IF Head(s) = sep THEN <<cur>> \o SplitFrom(Tail(s), sep, <<>>)
  ELSE SplitFrom(Tail(s), sep, Append(cur, Head(s)))

Split(s, sep) == SplitFrom(s, sep, <<>>)

Fin(n) == <<"fin", n>>
NaN == <<"nan", 0>>
PosInf == <<"inf", 1>>
NegInf == <<"inf", -1>>

\* math.isfinite
IsFinite(x) == x[1] = "fin"

----------------------------------------------------------------------------
(* data/models.py: the enumerations *)

\* MetricType: the values of its members, in definition order
MetricTypeValues == << T("temperature"), T("humidity"), T("pressure") >>

SeqRange(s) == {s[i] : i \in DOMAIN s}

\* Statistic values
StatMin == T("min")
StatMax == T("max")
StatAvg == T("average")
StatSum == T("sum")

----------------------------------------------------------------------------
(* api/validators.py: validate_ingest_payload *)

Passed == [raised |-> FALSE, check |-> 0, why |-> "none", key |-> EmptyText]
Raise(n, w, k) == [raised |-> TRUE, check |-> n, why |-> w, key |-> k]

\* Mutant: the value of an item is never looked at
RECURSIVE CheckMetricItemsNoFinite(_, _)
CheckMetricItemsNoFinite(items, allowed) ==
  IF items = <<>> THEN Passed
  ELSE LET name == Head(items)[1]
       IN IF Strip(name) = EmptyText THEN Raise(5, "metric_name_empty", name)
          ELSE IF name \notin allowed THEN Raise(5, "unknown_metric", name)
          ELSE CheckMetricItemsNoFinite(Tail(items), allowed)

\* Mutant: two passes, every name first and then every value
RECURSIVE CheckMetricItemsTwoPasses(_, _)
CheckMetricItemsTwoPasses(items, allowed) ==
  LET names == CheckMetricItemsNoFinite(items, allowed)
      bad == { i \in DOMAIN items : ~IsFinite(items[i][2]) }
      first == CHOOSE i \in bad : \A j \in bad : i <= j
  IN IF names.raised THEN names
     ELSE IF bad = {} THEN Passed
     ELSE Raise(6, "not_finite", items[first][1])

\* The loop over payload.metrics.items(): per item, the name checks and
\* then the value check; the first raise ends the loop.
\* isinstance(name, str) and isinstance(value, (int, float)) hold of every
\* decoded dict[str, float].
RECURSIVE CheckMetricItems(_, _)
CheckMetricItems(items, allowed) ==
  IF items = <<>> THEN Passed
  ELSE LET name == Head(items)[1]
           value == Head(items)[2]
       IN IF Strip(name) = EmptyText THEN Raise(5, "metric_name_empty", name)
          ELSE IF name \notin allowed THEN Raise(5, "unknown_metric", name)
          ELSE IF ~IsFinite(value) THEN Raise(6, "not_finite", name)
          ELSE CheckMetricItems(Tail(items), allowed)

\* Mutant: an empty metrics mapping is let through
validate_ingest_payload_EmptyAllowed(sensor_id, payload) ==
  IF sensor_id = EmptyText \/ Strip(sensor_id) = EmptyText
    THEN Raise(1, "sensor_id_empty", EmptyText)
  ELSE IF Strip(payload.sensor_type) = EmptyText
    THEN Raise(3, "sensor_type_empty", EmptyText)
  ELSE IF Strip(payload.location) = EmptyText
    THEN Raise(4, "location_empty", EmptyText)
  ELSE CheckMetricItems(payload.metrics, SeqRange(MetricTypeValues))

validate_ingest_payload(sensor_id, payload) ==
  IF sensor_id = EmptyText \/ Strip(sensor_id) = EmptyText
    THEN Raise(1, "sensor_id_empty", EmptyText)
  ELSE IF payload.metrics = <<>>
    THEN Raise(2, "no_metric", EmptyText)
  ELSE IF Strip(payload.sensor_type) = EmptyText
    THEN Raise(3, "sensor_type_empty", EmptyText)
  ELSE IF Strip(payload.location) = EmptyText
    THEN Raise(4, "location_empty", EmptyText)
  ELSE CheckMetricItems(payload.metrics, SeqRange(MetricTypeValues))

----------------------------------------------------------------------------
(* data/models.py: SensorData, SensorMetric, SensorQuery *)

\* datetime.timedelta(days=n), in the model's unit of time
Days(n) == n

\* dict.get(key): the value under key, or None
DictGet(items, key) ==
  LET at == { i \in DOMAIN items : items[i][1] = key }
  IN IF at = {} THEN None ELSE Some(items[CHOOSE i \in at : TRUE][2])

\* SensorData(...) and its __post_init__: an absent timestamp becomes the
\* instant of creation
SensorData(sensor_id, metrics, timestamp, location, sensor_type, clock) ==
  [ sensor_id |-> sensor_id,
    metrics |-> metrics,
    timestamp |-> IF timestamp = None THEN clock ELSE The(timestamp),
    location |-> location,
    sensor_type |-> sensor_type ]

\* Mutant: the humidity column is filled from the temperature key
from_sensor_data_WrongKey(data) ==
  [ timestamp |-> data.timestamp,
    sensor_id |-> data.sensor_id,
    location |-> data.location,
    sensor_type |-> data.sensor_type,
    temperature |-> DictGet(data.metrics, T("temperature")),
    humidity |-> DictGet(data.metrics, T("temperature")),
    pressure |-> DictGet(data.metrics, T("pressure")) ]

\* SensorMetric.from_sensor_data (SensorData.to_db_record): one row, a
\* metric column being NULL when the mapping has no such key
from_sensor_data(data) ==
  [ timestamp |-> data.timestamp,
    sensor_id |-> data.sensor_id,
    location |-> data.location,
    sensor_type |-> data.sensor_type,
    temperature |-> DictGet(data.metrics, T("temperature")),
    humidity |-> DictGet(data.metrics, T("humidity")),
    pressure |-> DictGet(data.metrics, T("pressure")) ]

\* Mutant: no primary key
PrimaryKeyConflict_None(table, row) == FALSE

\* The composite primary key (timestamp, sensor_id) of sensor_metrics: an
\* INSERT of a row whose key the table holds is refused
PrimaryKeyConflict(table, row) ==
  \E r \in table :
    r.sensor_id = row.sensor_id /\ r.timestamp = row.timestamp

\* The attributes of the SensorMetric class that are columns, with the type
\* of each
FloatColumns == { T("temperature"), T("humidity"), T("pressure") }
TextColumns == { T("sensor_id"), T("location"), T("sensor_type") }
TimeColumns == { T("timestamp") }

\* hasattr(SensorMetric, name), for the names the model requests
HasAttr(name) == name \in FloatColumns \cup TextColumns \cup TimeColumns

\* getattr(row, name): the column's value, None when NULL
Column(row, name) ==
  CASE name = T("temperature") -> row.temperature
    [] name = T("humidity") -> row.humidity
    [] name = T("pressure") -> row.pressure
    [] name = T("sensor_id") -> Some(row.sensor_id)
    [] name = T("location") -> Some(row.location)
    [] name = T("sensor_type") -> Some(row.sensor_type)
    [] name = T("timestamp") -> Some(row.timestamp)

SensorQuery(sensor_ids, metrics, statistic, start_date, end_date) ==
  [ sensor_ids |-> sensor_ids,
    metrics |-> metrics,
    statistic |-> statistic,
    start_date |-> start_date,
    end_date |-> end_date ]

\* Mutant: the default start is counted back from the current instant
get_date_filter_StartFromNow(query, clock) ==
  LET end == IF query.end_date # None THEN The(query.end_date) ELSE clock
      start == IF query.start_date # None THEN The(query.start_date)
               ELSE clock - Days(1)
  IN <<start, end>>

\* SensorQuery.get_date_filter
get_date_filter(query, clock) ==
  LET end == IF query.end_date # None THEN The(query.end_date) ELSE clock
      start == IF query.start_date # None THEN The(query.start_date)
               ELSE end - Days(1)
  IN <<start, end>>

----------------------------------------------------------------------------
(* api/utils.py: the parameter parsers *)

MinDays == 1
MaxDays == 31

\* Mutant: a repeated item replaces its first occurrence
RECURSIVE DedupeFrom_KeepLast(_, _)
DedupeFrom_KeepLast(items, result) ==
  IF items = <<>> THEN result
  ELSE IF Head(items) # EmptyText
    THEN LET other(t) == t # Head(items)
         IN DedupeFrom_KeepLast(Tail(items),
                                Append(SelectSeq(result, other), Head(items)))
    ELSE DedupeFrom_KeepLast(Tail(items), result)

RECURSIVE DedupeFrom(_, _)
DedupeFrom(items, result) ==
  IF items = <<>> THEN result
  ELSE IF Head(items) # EmptyText /\ Head(items) \notin SeqRange(result)
    THEN DedupeFrom(Tail(items), Append(result, Head(items)))
    ELSE DedupeFrom(Tail(items), result)

\* _dedupe_preserve_order
dedupe_preserve_order(items) == DedupeFrom(items, <<>>)

NonEmptyText(t) == t # EmptyText

\* [p.strip() for p in raw.split(",")], then [p for p in parts if p]
StrippedParts(raw) ==
  LET parts == Split(raw, ",")
  IN SelectSeq([i \in DOMAIN parts |-> Strip(parts[i])], NonEmptyText)

\* parse_sensors_param: None or a non-empty list
parse_sensors_param(raw) ==
  IF raw = None \/ raw = Some(EmptyText) THEN None
  ELSE LET result == dedupe_preserve_order(StrippedParts(The(raw)))
       IN IF result # <<>> THEN Some(result) ELSE None

\* parse_metrics_param: a list, empty when nothing is asked for
parse_metrics_param(raw) ==
  IF raw = None \/ raw = Some(EmptyText) THEN <<>>
  ELSE dedupe_preserve_order(StrippedParts(The(raw)))

StatisticValues == { StatAvg, StatMin, StatMax, StatSum }

\* Mutant: the raw value is not lower-cased
parse_stat_NoLower(raw) ==
  LET given == IF raw = None \/ raw = Some(EmptyText) THEN T("average")
               ELSE The(raw)
      stat_norm == Strip(given)
  IN IF stat_norm \in { StatAvg, StatMin, StatMax, StatSum }
       THEN Some(stat_norm) ELSE None

\* parse_stat: the Statistic, or None when ValidationException is raised
parse_stat(raw) ==
  LET given == IF raw = None \/ raw = Some(EmptyText) THEN T("average")
               ELSE The(raw)
      stat_norm == Lower(Strip(given))
  IN IF stat_norm \in StatisticValues THEN Some(stat_norm) ELSE None

\* Mutant: the upper limit itself is refused
compute_date_range_from_days_UpperExcluded(days, clock) ==
  IF days # None /\ (The(days) < MinDays \/ The(days) >= MaxDays) THEN None
  ELSE LET days_back == IF days # None THEN The(days) ELSE 1
           end == clock
       IN Some(<<end - Days(days_back), end>>)

\* Mutant: no upper limit on days
compute_date_range_from_days_NoUpperLimit(days, clock) ==
  IF days # None /\ The(days) < MinDays THEN None
  ELSE LET days_back == IF days # None THEN The(days) ELSE 1
           end == clock
       IN Some(<<end - Days(days_back), end>>)

\* compute_date_range_from_days: <<start, end>>, or None when
\* ValidationException is raised
compute_date_range_from_days(days, clock) ==
  IF days # None /\ (The(days) < MinDays \/ The(days) > MaxDays) THEN None
  ELSE LET days_back == IF days # None THEN The(days) ELSE 1
           end == clock
       IN Some(<<end - Days(days_back), end>>)

----------------------------------------------------------------------------
(* storage/timescaledb.py: query_sensor_data, and the store's side of it *)

\* Statistic.to_sqlalchemy_func: the SQL aggregate function
to_sqlalchemy_func(statistic) ==
  CASE statistic = StatMin -> "min"
    [] statistic = StatMax -> "max"
    [] statistic = StatSum -> "sum"
    [] statistic = StatAvg -> "avg"
    [] OTHER -> "avg"

\* query.metrics or [m.value for m in MetricType.__members__.values()]
RequestedMetrics(query) ==
  IF query.metrics # <<>> THEN query.metrics ELSE MetricTypeValues

\* The names that get an aggregate column: those hasattr() lets through
EffectiveMetrics(query) == SelectSeq(RequestedMetrics(query), HasAttr)

\* The statement: SELECT sensor_id, fn(column)... WHERE ... GROUP BY sensor_id
Statement(query, clock) ==
  [ fn |-> to_sqlalchemy_func(query.statistic),
    columns |-> EffectiveMetrics(query),
    sensor_filter |->
      IF query.sensor_ids # None /\ The(query.sensor_ids) # <<>>
        THEN Some(SeqRange(The(query.sensor_ids))) ELSE None,
    start_date |-> get_date_filter(query, clock)[1],
    end_date |-> get_date_filter(query, clock)[2] ]

\* Mutant: the sensor filter is left out of the statement
WhereClause_AnySensor(stmt, row) ==
  /\ row.timestamp >= stmt.start_date
  /\ row.timestamp <= stmt.end_date

\* Mutant: the start of the range is excluded
WhereClause_StartExcluded(stmt, row) ==
  /\ stmt.sensor_filter # None => row.sensor_id \in The(stmt.sensor_filter)
  /\ row.timestamp > stmt.start_date
  /\ row.timestamp <= stmt.end_date

\* sensor_id IN (...) AND timestamp >= start AND timestamp <= end
WhereClause(stmt, row) ==
  /\ stmt.sensor_filter # None => row.sensor_id \in The(stmt.sensor_filter)
  /\ row.timestamp >= stmt.start_date
  /\ row.timestamp <= stmt.end_date

\* Rationals <<numerator, denominator>> in lowest terms, denominator > 0
Abs(n) == IF n < 0 THEN -n ELSE n

RECURSIVE Gcd(_, _)
Gcd(a, b) == IF b = 0 THEN a ELSE Gcd(b, a % b)

Ratio(n, d) ==
  LET g == Gcd(Abs(n), d)
  IN <<n \div g, d \div g>>

\* The non-NULL values of a column over a set of rows, one per row
RECURSIVE ColumnValues(_, _)
ColumnValues(rows, name) ==
  IF rows = {} THEN <<>>
  ELSE LET r == CHOOSE x \in rows : TRUE
           v == Column(r, name)
       IN (IF v = None THEN <<>> ELSE <<The(v)>>)
            \o ColumnValues(rows \ {r}, name)

RECURSIVE FoldSum(_)
FoldSum(values) ==
  IF values = <<>> THEN 0 ELSE Head(values) + FoldSum(Tail(values))

RECURSIVE FoldMin(_)
FoldMin(values) ==
  IF Len(values) = 1 THEN Head(values)
  ELSE LET rest == FoldMin(Tail(values))
       IN IF Head(values) < rest THEN Head(values) ELSE rest

RECURSIVE FoldMax(_)
FoldMax(values) ==
  IF Len(values) = 1 THEN Head(values)
  ELSE LET rest == FoldMax(Tail(values))
       IN IF Head(values) > rest THEN Head(values) ELSE rest

\* Mutant: avg computed as sum
SqlAggregate_AvgAsSum(fn, values) ==
  IF values = <<>> THEN None
  ELSE CASE fn = "min" -> Some(Ratio(FoldMin(values), 1))
         [] fn = "max" -> Some(Ratio(FoldMax(values), 1))
         [] fn = "sum" -> Some(Ratio(FoldSum(values), 1))
         [] fn = "avg" -> Some(Ratio(FoldSum(values), 1))

\* min, max, sum, avg of the store over the non-NULL numbers of a group:
\* NULL when there is none
SqlAggregate(fn, values) ==
  IF values = <<>> THEN None
  ELSE CASE fn = "min" -> Some(Ratio(FoldMin(values), 1))
         [] fn = "max" -> Some(Ratio(FoldMax(values), 1))
         [] fn = "sum" -> Some(Ratio(FoldSum(values), 1))
         [] fn = "avg" -> Some(Ratio(FoldSum(values), Len(values)))

\* A value of a text or timestamp column, as the aggregate hands it back
NotANumber == <<"not a number">>

\* fn(column) over the rows of one group.  min and max of a text or a
\* timestamp column give back one of its values.
AggregateColumn(fn, name, rows) ==
  LET values == ColumnValues(rows, name)
  IN IF name \in FloatColumns
       THEN SqlAggregate(fn, [i \in DOMAIN values |-> values[i][2]])
       ELSE IF values = <<>> THEN None ELSE Some(NotANumber)

\* The store has no sum or avg over text or timestamp columns: it refuses
\* the statement
StatementRefused(stmt) ==
  /\ stmt.fn \in {"sum", "avg"}
  /\ \E i \in DOMAIN stmt.columns : stmt.columns[i] \notin FloatColumns

\* session.execute(stmt), fetchall(): one row per sensor_id that has a row
\* passing the WHERE clause, in the order the store picks (groups lists
\* those sensor ids in that order)
ExecuteStatement(table, stmt, groups) ==
  [ g \in DOMAIN groups |->
      LET rows == { r \in table :
                     WhereClause(stmt, r) /\ r.sensor_id = groups[g] }
      IN [ sensor_id |-> groups[g],
           value |-> [ name \in SeqRange(stmt.columns) |->
                         AggregateColumn(stmt.fn, name, rows) ] ] ]

GroupOrders(table, stmt) ==
  LET ids == { r.sensor_id : r \in { x \in table : WhereClause(stmt, x) } }
  IN { o \in [1..Cardinality(ids) -> ids] :
         \A i, j \in DOMAIN o : i # j => o[i] # o[j] }

MetricResult(metric, value, statistic) ==
  [metric |-> metric, value |-> value, statistic |-> statistic]

SensorQueryResult(sensor_id, metrics, timestamp) ==
  [sensor_id |-> sensor_id, metrics |-> metrics, timestamp |-> timestamp]

\* Mutant: a value that is falsy (0.0) is dropped like a NULL
RECURSIVE RowMetrics_Truthy(_, _, _)
RowMetrics_Truthy(row, names, statistic) ==
  IF names = <<>> THEN <<>>
  ELSE LET name == Head(names)
           rest == RowMetrics_Truthy(row, Tail(names), statistic)
       IN IF HasAttr(name) /\ row.value[name] # None
                /\ The(row.value[name])[1] # 0
            THEN <<MetricResult(name, The(row.value[name]), statistic)>> \o rest
            ELSE rest

\* The inner loop of the result shaping: one MetricResult per requested
\* name that is an attribute and whose aggregate is not None
RECURSIVE RowMetrics(_, _, _)
RowMetrics(row, names, statistic) ==
  IF names = <<>> THEN <<>>
  ELSE LET name == Head(names)
           rest == RowMetrics(row, Tail(names), statistic)
       IN IF HasAttr(name) /\ row.value[name] # None
            THEN <<MetricResult(name, The(row.value[name]), statistic)>> \o rest
            ELSE rest

\* float(value) raises on a text that is no number (the model's texts are
\* none) and on a datetime
FloatRaises(rows) ==
  \E g \in DOMAIN rows : \E name \in DOMAIN rows[g].value :
    rows[g].value[name] = Some(NotANumber)

\* Mutant: a sensor whose metrics list is empty is kept
RECURSIVE ShapeResults_KeepEmpty(_, _, _, _)
ShapeResults_KeepEmpty(rows, names, statistic, end_date) ==
  IF rows = <<>> THEN <<>>
  ELSE LET metrics == RowMetrics(Head(rows), names, statistic)
           rest == ShapeResults_KeepEmpty(Tail(rows), names, statistic, end_date)
       IN <<SensorQueryResult(Head(rows).sensor_id, metrics, end_date)>> \o rest

\* The outer loop of the result shaping
RECURSIVE ShapeResults(_, _, _, _)
ShapeResults(rows, names, statistic, end_date) ==
  IF rows = <<>> THEN <<>>
  ELSE LET metrics == RowMetrics(Head(rows), names, statistic)
           rest == ShapeResults(Tail(rows), names, statistic, end_date)
       IN IF metrics # <<>>
            THEN <<SensorQueryResult(Head(rows).sensor_id, metrics, end_date)>>
                   \o rest
            ELSE rest

Returned(results, n) ==
  [failed |-> "none", results |-> results, statements |-> n]
Raised(why, n) == [failed |-> why, results |-> <<>>, statements |-> n]

\* Mutant: the results carry the start of the range
query_sensor_data_StartAsTimestamp(table, query, clock, db_ok, groups) ==
  LET stmt == Statement(query, clock)
      rows == ExecuteStatement(table, stmt, groups)
  IN IF ~db_ok THEN Raised("storage_failure", 1)
     ELSE IF StatementRefused(stmt) THEN Raised("statement_refused", 1)
     ELSE IF FloatRaises(rows) THEN Raised("float_conversion", 1)
     ELSE Returned(ShapeResults(rows, RequestedMetrics(query),
                                query.statistic, stmt.start_date), 1)

\* query_sensor_data between get_session() and the session's close: what it
\* returns or raises, and the number of statements it sent to the store.
\* db_ok: the store answers; groups: the order the store returns the
\* groups in.
query_sensor_data(table, query, clock, db_ok, groups) ==
  LET stmt == Statement(query, clock)
      rows == ExecuteStatement(table, stmt, groups)
  IN IF ~db_ok THEN Raised("storage_failure", 1)
     ELSE IF StatementRefused(stmt) THEN Raised("statement_refused", 1)
     ELSE IF FloatRaises(rows) THEN Raised("float_conversion", 1)
     ELSE Returned(ShapeResults(rows, RequestedMetrics(query),
                                query.statistic, stmt.end_date), 1)

\* The order of str on the chunks the sensor ids of the model are made of
\* (code points: the space, then the digits, then the letters)
ChunkRank(c) ==
  CASE c = " " -> 1
    [] c = "\t" -> 0
    [] c = "s1" -> 2
    [] c = "s2" -> 3
    [] OTHER -> 4

\* a < b on str
RECURSIVE TextLess(_, _)
TextLess(a, b) ==
  IF b = <<>> THEN FALSE
  ELSE IF a = <<>> THEN TRUE
  ELSE IF Head(a) = Head(b) THEN TextLess(Tail(a), Tail(b))
  ELSE ChunkRank(Head(a)) < ChunkRank(Head(b))

\* sorted(set(rows))
RECURSIVE Sorted(_)
Sorted(items) ==
  IF items = {} THEN <<>>
  ELSE LET least == CHOOSE x \in items :
                      \A y \in items : x = y \/ TextLess(x, y)
       IN <<least>> \o Sorted(items \ {least})

\* SELECT DISTINCT sensor_id: the orders the store may return the ids in
DistinctOrders(table) ==
  LET ids == { r.sensor_id : r \in table }
  IN { o \in [1..Cardinality(ids) -> ids] :
         \A i, j \in DOMAIN o : i # j => o[i] # o[j] }

\* Mutant: the ids are returned in the order the store gave them
list_sensor_ids_Unsorted(rows, db_ok) ==
  IF ~db_ok THEN Raised("storage_failure", 1)
  ELSE Returned(rows, 1)

\* list_sensor_ids between get_session() and the session's close; rows is
\* result.scalars().all()
list_sensor_ids(rows, db_ok) ==
  IF ~db_ok THEN Raised("storage_failure", 1)
  ELSE Returned(Sorted(SeqRange(rows)), 1)

----------------------------------------------------------------------------
(* api/sensors.py: the handlers, one request per slot.  A handler runs    *)
(* without interruption from one await on the store to the next.          *)

\* The request slots: two handlers may run at once
Slots == {1, 2}

NoOutcome == [failed |-> "none", results |-> <<>>, statements |-> 0]

Slot(kind, pc, input, data, status, opened, calls, out) ==
  [ kind |-> kind, pc |-> pc, input |-> input, data |-> data,
    status |-> status, opened |-> opened, calls |-> calls, out |-> out ]

Idle == Slot("idle", "idle", None, None, 0, 0, 0, NoOutcome)

\* Mutant: any Content-Type passes
ContentTypeHasJson_Always(header) == TRUE

\* "json" in (headers.get("content-type") or "").split(";")[0].strip().lower()
ContentTypeHasJson(header) ==
  LET value == IF header = None THEN EmptyText ELSE The(header)
      content_type == Lower(Strip(Split(value, ";")[1]))
  IN \E k \in DOMAIN content_type : content_type[k] = "json"

InFlightIngests ==
  Cardinality({ j \in DOMAIN req : req[j].kind = "ingest" /\ req[j].pc # "done" })

\* ingest_sensor_data up to the await of session.commit(): the checks of
\* the request, then store_sensor_data's get_session() and session.add().
\* body is None when msgspec cannot decode it as a SensorIngestPayload.
IngestReceive(i, sensor_id, content_type, body) ==
  LET input == [ sensor_id |-> sensor_id, content_type |-> content_type,
                 body |-> body ]
      payload == The(body)
      sensor_data == SensorData(sensor_id, payload.metrics, payload.timestamp,
                                payload.location, payload.sensor_type, now)
      rejected ==
        \/ ~ContentTypeHasJson(content_type)
        \/ body = None
        \/ validate_ingest_payload(sensor_id, payload).raised
  IN /\ req[i].pc = "idle"
     /\ IF rejected
          THEN /\ req' = [req EXCEPT ![i] =
                     Slot("ingest", "done", Some(input), None, 400, 0, 0, NoOutcome)]
               /\ UNCHANGED sessions
          ELSE /\ Cardinality(store) + InFlightIngests < MaxRows
               /\ req' = [req EXCEPT ![i] =
                     Slot("ingest", "commit", Some(input), Some(sensor_data),
                          0, 1, 1, NoOutcome)]
               /\ sessions' = sessions \cup {i}
     /\ UNCHANGED <<store, now, vin, vout>>

\* Mutant: the row replaces the stored row of the same key (merge, not add)
StoreCommit_Upsert(i, db_ok) ==
  LET db_record == from_sensor_data(The(req[i].data))
      failed == IF ~db_ok THEN "storage_failure" ELSE "none"
      others == { r \in store : ~(r.sensor_id = db_record.sensor_id
                                   /\ r.timestamp = db_record.timestamp) }
  IN /\ req[i].kind = "ingest"
     /\ req[i].pc = "commit"
     /\ store' = IF failed = "none" THEN others \cup {db_record} ELSE store
     /\ req' = [req EXCEPT ![i].pc = "close",
                           ![i].out = [NoOutcome EXCEPT !.failed = failed,
                                                        !.statements = 1]]
     /\ UNCHANGED <<now, sessions, vin, vout>>

\* await session.commit(): the store inserts the row, or refuses it (the
\* key is taken) or fails (db_ok is false); the whole INSERT or nothing
StoreCommit(i, db_ok) ==
  LET db_record == from_sensor_data(The(req[i].data))
      failed == IF ~db_ok THEN "storage_failure"
                ELSE IF PrimaryKeyConflict(store, db_record) THEN "integrity_error"
                ELSE "none"
  IN /\ req[i].kind = "ingest"
     /\ req[i].pc = "commit"
     /\ store' = IF failed = "none" THEN store \cup {db_record} ELSE store
     /\ req' = [req EXCEPT ![i].pc = "close",
                           ![i].out = [NoOutcome EXCEPT !.failed = failed,
                                                        !.statements = 1]]
     /\ UNCHANGED <<now, sessions, vin, vout>>

\* Mutant: the exception of the storage call is swallowed
FinalStatus_Swallowed(kind, failed) ==
  IF kind = "ingest" THEN 201 ELSE 200

\* The status a handler answers with once its storage call is over
FinalStatus(kind, failed) ==
  IF failed # "none" THEN 500
  ELSE IF kind = "ingest" THEN 201 ELSE 200

\* Mutant: the session is closed after the block, not in a finally
SessionClose_OnSuccessOnly(i) ==
  /\ req[i].pc = "close"
  /\ sessions' = IF req[i].out.failed = "none" THEN sessions \ {i} ELSE sessions
  /\ req' = [req EXCEPT ![i].pc = "done",
                        ![i].status = FinalStatus(req[i].kind, req[i].out.failed)]
  /\ UNCHANGED <<store, now, vin, vout>>

\* get_session()'s finally: await session.close(); then the handler
\* returns, or the exception leaves it: 201 or 200, else 500
SessionClose(i) ==
  /\ req[i].pc = "close"
  /\ sessions' = sessions \ {i}
  /\ req' = [req EXCEPT ![i].pc = "done",
                        ![i].status = FinalStatus(req[i].kind, req[i].out.failed)]
  /\ UNCHANGED <<store, now, vin, vout>>

\* The response is sent and the slot is free for the next request
Respond(i) ==
  /\ req[i].pc = "done"
  /\ req' = [req EXCEPT ![i] = Idle]
  /\ UNCHANGED <<store, now, sessions, vin, vout>>

\* The part the two query handlers share: parse the parameters, build the
\* SensorQuery, and enter query_sensor_data up to the await of
\* session.execute().  stat is None when the request has no stat parameter.
QueryReceive(i, kind, sensors, sensor_list, metrics, stat, days) ==
  LET input == [sensors |-> sensors, metrics |-> metrics, stat |-> stat,
                days |-> days]
      metric_list == parse_metrics_param(metrics)
      statistic == parse_stat(IF stat = None THEN Some(T("average")) ELSE stat)
      range == compute_date_range_from_days(days, now)
      query == SensorQuery(sensor_list, metric_list, The(statistic),
                           Some(The(range)[1]), Some(The(range)[2]))
  IN /\ req[i].pc = "idle"
     /\ IF statistic = None \/ range = None
          THEN /\ req' = [req EXCEPT ![i] =
                     Slot(kind, "done", Some(input), None, 400, 0, 0, NoOutcome)]
               /\ UNCHANGED sessions
          ELSE /\ req' = [req EXCEPT ![i] =
                     Slot(kind, "execute", Some(input), Some(query),
                          0, 1, 1, NoOutcome)]
               /\ sessions' = sessions \cup {i}
     /\ UNCHANGED <<store, now, vin, vout>>

\* get_multi_sensor_data
QueryMultiReceive(i, sensors, metrics, stat, days) ==
  QueryReceive(i, "query_multi", sensors,
               parse_sensors_param(sensors), metrics, stat, days)

\* get_single_sensor_data
QuerySingleReceive(i, sensor_id, metrics, stat, days) ==
  QueryReceive(i, "query_single", Some(sensor_id),
               Some(<<sensor_id>>), metrics, stat, days)

IsQuery(r) == r.kind \in {"query_multi", "query_single"}

\* await session.execute(stmt), and the result shaping that follows it
QueryExecute(i, db_ok) ==
  /\ IsQuery(req[i])
  /\ req[i].pc = "execute"
  /\ \E groups \in GroupOrders(store, Statement(The(req[i].data), now)) :
       req' = [req EXCEPT ![i].pc = "close",
                          ![i].out = query_sensor_data(store, The(req[i].data),
                                                       now, db_ok, groups)]
  /\ UNCHANGED <<store, now, sessions, vin, vout>>

\* list_sensors up to the await of session.execute() in list_sensor_ids
ListReceive(i) ==
  /\ req[i].pc = "idle"
  /\ req' = [req EXCEPT ![i] =
        Slot("list", "execute", None, None, 0, 1, 1, NoOutcome)]
  /\ sessions' = sessions \cup {i}
  /\ UNCHANGED <<store, now, vin, vout>>

\* await session.execute(stmt) of list_sensor_ids, and the sorting
ListExecute(i, db_ok) ==
  /\ req[i].kind = "list"
  /\ req[i].pc = "execute"
  /\ \E rows \in DistinctOrders(store) :
       req' = [req EXCEPT ![i].pc = "close",
                          ![i].out = list_sensor_ids(rows, db_ok)]
  /\ UNCHANGED <<store, now, sessions, vin, vout>>

\* Time passes
Tick ==
  /\ now < MaxTicks
  /\ now' = now + 1
  /\ UNCHANGED <<store, sessions, req, vin, vout>>

----------------------------------------------------------------------------
(* Inputs of the validator *)

SensorIdTexts == { EmptyText, T(" "), T("s1"), <<" ", "s1">> }
PlaceTexts == { EmptyText, T(" "), T("lab") }
MetricKeyTexts ==
  { T("temperature"), T("humidity"), T("voltage"), EmptyText, T(" ") }
MetricValueFloats == { Fin(1), NaN, PosInf }

DistinctKeys(items) ==
  \A i, j \in DOMAIN items : i # j => items[i][1] # items[j][1]

\* A mapping, as the sequence of its items in insertion order
MetricMappings(keys, values) ==
  { m \in UNION { [1..n -> keys \X values] : n \in 0..MaxMetrics } :
      DistinctKeys(m) }

Payload(l, st, m, ts) ==
  [location |-> l, sensor_type |-> st, metrics |-> m, timestamp |-> ts]

ValidatorInputs ==
  { [sensor_id |-> s, payload |-> Payload(l, st, m, None)] :
      s \in SensorIdTexts, l \in PlaceTexts, st \in PlaceTexts,
      m \in MetricMappings(MetricKeyTexts, MetricValueFloats) }

Pending == [raised |-> FALSE, check |-> -1, why |-> "pending", key |-> EmptyText]

ValidateInit ==
  /\ store = {}
  /\ now = 0
  /\ sessions = {}
  /\ req = [i \in Slots |-> Idle]
  /\ vin \in ValidatorInputs
  /\ vout = Pending

Validate ==
  /\ vout = Pending
  /\ vout' = validate_ingest_payload(vin.sensor_id, vin.payload)
  /\ UNCHANGED <<store, now, sessions, req, vin>>

ValidateNext == Validate

ValidateSpec == ValidateInit /\ [][ValidateNext]_vars

----------------------------------------------------------------------------
(* Requests *)

JsonType == Some(<<"application/", "json">>)
JsonTypeWithCharset ==
  Some(<<"Application/", "JSON", ";", " ", "charset=utf-8">>)
PlainType == Some(<<"text/", "plain">>)
PlainTypeWithJsonParameter == Some(<<"text/", "plain", ";", "x=", "json">>)

Item(k, n) == <<T(k), Fin(n)>>

IngestInput(s, c, b) == [sensor_id |-> s, content_type |-> c, body |-> b]

GoodPayload(m, ts) == Payload(T("lab"), T("thermo"), m, ts)

\* Requests the validator turns down, and two it lets through
OddIngestInputs ==
  LET m == <<Item("temperature", 1)>>
  IN { IngestInput(T("s1"), None, Some(GoodPayload(m, None))),
       IngestInput(T("s1"), PlainType, Some(GoodPayload(m, None))),
       IngestInput(T("s1"), PlainTypeWithJsonParameter, Some(GoodPayload(m, None))),
       IngestInput(T("s1"), JsonTypeWithCharset, Some(GoodPayload(m, None))),
       IngestInput(T("s1"), JsonType, None),
       IngestInput(T(" "), JsonType, Some(GoodPayload(m, None))),
       IngestInput(<<" ", "s1">>, JsonType, Some(GoodPayload(m, Some(-1)))),
       IngestInput(T("s1"), JsonType, Some(GoodPayload(<<>>, None))),
       IngestInput(T("s1"), JsonType, Some(Payload(EmptyText, T("thermo"), m, None))),
       IngestInput(T("s1"), JsonType, Some(Payload(T("lab"), T(" "), m, None))),
       IngestInput(T("s1"), JsonType,
                   Some(GoodPayload(<<Item("voltage", 1)>>, None))),
       IngestInput(T("s1"), JsonType,
                   Some(GoodPayload(<<<<T("temperature"), NaN>>>>, None))),
       IngestInput(T("s1"), JsonType,
                   Some(GoodPayload(<<Item("humidity", 1),
                                      <<T("temperature"), PosInf>>>>, None))) }

\* One request at a time
SerialMappings ==
  { <<Item("temperature", 0)>>,
    <<Item("temperature", 1), Item("humidity", 1)>>,
    <<Item("humidity", 1)>> }
SerialTimestamps == { None, Some(-2), Some(-1), Some(1) }
SerialIngestInputs ==
  { IngestInput(s, JsonType, Some(GoodPayload(m, ts))) :
      s \in {T("s1"), T("s2")}, m \in SerialMappings, ts \in SerialTimestamps }
    \cup OddIngestInputs

SerialSensorsParams == { None, Some(<<"s2", ",", " ", "s1", ",", "s2">>) }
SerialMetricsParams ==
  { None,
    Some(<<"voltage", ",", "humidity", ",", " ", "temperature">>),
    Some(<<"voltage">>),
    Some(<<"location">>) }
SerialStatParams == { None, Some(T("Min")), Some(T("MAX")), Some(T("sum")),
                      Some(T("median")) }
SerialDaysParams == { None, Some(2), Some(0), Some(32) }

\* Concurrent requests
SlotIngestInputs ==
  { IngestInput(s, JsonType, Some(GoodPayload(m, ts))) :
      s \in {T("s1"), T("s2")},
      m \in { <<Item("temperature", 0)>>,
              <<Item("temperature", 1), Item("humidity", 1)>> },
      ts \in { None, Some(0) } }
    \cup { IngestInput(T("s1"), PlainType,
                       Some(GoodPayload(<<Item("temperature", 1)>>, None))),
           IngestInput(T("s1"), JsonType,
                       Some(Payload(T("lab"), T(" "), <<Item("temperature", 1)>>,
                                    None))) }

----------------------------------------------------------------------------
(* The specifications *)

NoValidatorInput ==
  [sensor_id |-> EmptyText, payload |-> Payload(EmptyText, EmptyText, <<>>, None)]

Init ==
  /\ store = {}
  /\ now = 0
  /\ sessions = {}
  /\ req = [i \in Slots |-> Idle]
  /\ vin = NoValidatorInput
  /\ vout = Pending

\* Requests that overlap: each slot runs one handler at a time
Next ==
  \/ \E i \in Slots : \E x \in SlotIngestInputs :
        IngestReceive(i, x.sensor_id, x.content_type, x.body)
  \/ \E i \in Slots : \E db_ok \in BOOLEAN : StoreCommit(i, db_ok)
  \/ \E i \in Slots : \E days \in {None, Some(0)} :
        QueryMultiReceive(i, None, None, None, days)
  \/ \E i \in Slots :
        QuerySingleReceive(i, T("s1"), Some(<<"temperature">>), Some(T("MAX")), None)
  \/ \E i \in Slots : \E db_ok \in BOOLEAN : QueryExecute(i, db_ok)
  \/ \E i \in Slots : ListReceive(i)
  \/ \E i \in Slots : \E db_ok \in BOOLEAN : ListExecute(i, db_ok)
  \/ \E i \in Slots : SessionClose(i)
  \/ \E i \in Slots : Respond(i)
  \/ Tick

Spec == Init /\ [][Next]_vars

\* One request at a time, over more inputs
SerialNext ==
  \/ \E x \in SerialIngestInputs :
        IngestReceive(1, x.sensor_id, x.content_type, x.body)
  \/ \E db_ok \in BOOLEAN : StoreCommit(1, db_ok)
  \/ \E sensors \in SerialSensorsParams, metrics \in SerialMetricsParams,
         stat \in SerialStatParams, days \in SerialDaysParams :
        QueryMultiReceive(1, sensors, metrics, stat, days)
  \/ \E metrics \in {None, Some(<<"location">>)}, stat \in {None, Some(T("MAX"))} :
        QuerySingleReceive(1, T("s1"), metrics, stat, None)
  \/ \E db_ok \in BOOLEAN : QueryExecute(1, db_ok)
  \/ ListReceive(1)
  \/ \E db_ok \in BOOLEAN : ListExecute(1, db_ok)
  \/ SessionClose(1)
  \/ Respond(1)

SerialSpec == Init /\ [][SerialNext]_vars

----------------------------------------------------------------------------
(* Direct calls of the parameter parsers and of get_date_filter, next to   *)
(* query requests that reach them through get_multi_sensor_data            *)

StatWords ==
  { "average", "Average", "AVERAGE", "aVeRaGe", "min", "Min", "MIN", "mIn",
    "max", "Max", "MAX", "sum", "Sum", "SUM", "median", "MEDIAN", "minimum" }

\* Raw stat values: a word, with or without whitespace around it; the
\* empty text; whitespace alone; two words
StatTexts ==
  { pre \o <<w>> \o post :
      pre \in {<<>>, <<" ">>}, post \in {<<>>, <<" ">>, <<"\t">>}, w \in StatWords }
    \cup { EmptyText, T(" "), <<"min", " ", "max">> }

DaysValues == (MinDays - 2) .. (MaxDays + 2)

\* Raw sensors and metrics values: up to MaxChunks chunks
ListTexts ==
  UNION { [1..n -> {"s1", "s2", ",", " "}] : n \in 0..MaxChunks }

Instants == (0 - 2) .. MaxTicks

ParserInputs ==
  { [fn |-> "parse_stat", raw |-> r] : r \in {None} \cup { Some(t) : t \in StatTexts } }
    \cup { [fn |-> "compute_date_range_from_days", days |-> d, clock |-> c] :
             d \in {None} \cup { Some(n) : n \in DaysValues }, c \in 0..MaxTicks }
    \cup { [fn |-> f, raw |-> r] :
             f \in {"parse_sensors_param", "parse_metrics_param"},
             r \in {None} \cup { Some(t) : t \in ListTexts } }
    \cup { [fn |-> "get_date_filter", start_date |-> a, end_date |-> b, clock |-> c] :
             a \in {None} \cup { Some(t) : t \in Instants },
             b \in {None} \cup { Some(t) : t \in Instants },
             c \in 0..MaxTicks }

ParseInit ==
  /\ store = {}
  /\ now = 0
  /\ sessions = {}
  /\ req = [i \in Slots |-> Idle]
  /\ vin \in ParserInputs
  /\ vout = Pending

ParseStat ==
  /\ vout = Pending /\ vin.fn = "parse_stat"
  /\ vout' = [fn |-> vin.fn, value |-> parse_stat(vin.raw)]
  /\ UNCHANGED <<store, now, sessions, req, vin>>

ComputeDateRange ==
  /\ vout = Pending /\ vin.fn = "compute_date_range_from_days"
  /\ vout' = [fn |-> vin.fn,
              value |-> compute_date_range_from_days(vin.days, vin.clock)]
  /\ UNCHANGED <<store, now, sessions, req, vin>>

ParseSensors ==
  /\ vout = Pending /\ vin.fn = "parse_sensors_param"
  /\ vout' = [fn |-> vin.fn, value |-> parse_sensors_param(vin.raw)]
  /\ UNCHANGED <<store, now, sessions, req, vin>>

ParseMetrics ==
  /\ vout = Pending /\ vin.fn = "parse_metrics_param"
  /\ vout' = [fn |-> vin.fn, value |-> parse_metrics_param(vin.raw)]
  /\ UNCHANGED <<store, now, sessions, req, vin>>

GetDateFilter ==
  /\ vout = Pending /\ vin.fn = "get_date_filter"
  /\ vout' = [fn |-> vin.fn,
              value |-> get_date_filter(
                          SensorQuery(None, <<>>, StatAvg, vin.start_date,
                                      vin.end_date), vin.clock)]
  /\ UNCHANGED <<store, now, sessions, req, vin>>

HttpStatParams == { None, Some(<<" ", "min">>), Some(T("median")) }
HttpDaysParams == { None, Some(2) }

ParseNext ==
  \/ ParseStat
  \/ ComputeDateRange
  \/ ParseSensors
  \/ ParseMetrics
  \/ GetDateFilter
  \/ \E stat \in HttpStatParams, days \in HttpDaysParams :
        QueryMultiReceive(1, None, None, stat, days)
  \/ QueryExecute(1, TRUE)
  \/ SessionClose(1)
  \/ Respond(1)
  \/ Tick

ParseSpec == ParseInit /\ [][ParseNext]_vars

----------------------------------------------------------------------------
(* Requests about readings at the edges of the widest range: readings     *)
(* dated MaxDays days back, one day more, and ahead of the clock           *)

WindowTimestamps ==
  { None, Some(1), Some(0 - 1), Some(0 - MaxDays), Some(0 - (MaxDays + 1)) }

WindowIngestInputs ==
  { IngestInput(s, JsonType, Some(GoodPayload(<<Item("temperature", v)>>, ts))) :
      s \in {T("s1"), T("s2")}, v \in {1, 3}, ts \in WindowTimestamps }

WindowStatParams == { None, Some(T("Min")), Some(T("sum")) }
WindowDaysParams == { None, Some(2), Some(MaxDays), Some(MaxDays + 1) }

WindowNext ==
  \/ \E x \in WindowIngestInputs :
        IngestReceive(1, x.sensor_id, x.content_type, x.body)
  \/ StoreCommit(1, TRUE)
  \/ \E stat \in WindowStatParams, days \in WindowDaysParams :
        QueryMultiReceive(1, None, None, stat, days)
  \/ \E days \in {None, Some(MaxDays)} :
        QuerySingleReceive(1, T("s1"), Some(<<"temperature">>), None, days)
  \/ \E db_ok \in BOOLEAN : QueryExecute(1, db_ok)
  \/ SessionClose(1)
  \/ Respond(1)

WindowSpec == Init /\ [][WindowNext]_vars

----------------------------------------------------------------------------
(* Claims about validate_ingest_payload, under ValidateSpec *)

NonBlank(s) == \E i \in DOMAIN s : ~IsSpace(s[i])
IsMetricType(k) == \E i \in DOMAIN MetricTypeValues : MetricTypeValues[i] = k

Check1(a) == NonBlank(a.sensor_id)
Check2(a) == Len(a.payload.metrics) >= 1
Check3(a) == NonBlank(a.payload.sensor_type)
Check4(a) == NonBlank(a.payload.location)
KeyGood(item) == NonBlank(item[1]) /\ IsMetricType(item[1])
ValueGood(item) == item[2][1] \notin {"nan", "inf"}
Check5(a) == \A i \in DOMAIN a.payload.metrics : KeyGood(a.payload.metrics[i])
Check6(a) == \A i \in DOMAIN a.payload.metrics : ValueGood(a.payload.metrics[i])

ViolatedChecks(a) ==
  { n \in 1..6 :
      \/ n = 1 /\ ~Check1(a)
      \/ n = 2 /\ ~Check2(a)
      \/ n = 3 /\ ~Check3(a)
      \/ n = 4 /\ ~Check4(a)
      \/ n = 5 /\ ~Check5(a)
      \/ n = 6 /\ ~Check6(a) }

Validated == vout # Pending

\* C5: validate_ingest_payload succeeds if and only if the sensor id, the
\* sensor type and the location are non-blank, the metrics mapping is
\* non-empty, every metric key is a non-blank MetricType name and every
\* metric value is finite; in every other case it raises.
C5_ValidatesIffAllChecksHold ==
  Validated => (~vout.raised <=> ViolatedChecks(vin) = {})

C5_Witness ==
  /\ Validated
  /\ ~vout.raised
  /\ Len(vin.payload.metrics) = 2
  /\ vin.sensor_id = <<" ", "s1">>

FirstBadItem(items) ==
  CHOOSE i \in DOMAIN items :
    /\ ~(KeyGood(items[i]) /\ ValueGood(items[i]))
    /\ \A j \in 1..(i - 1) : KeyGood(items[j]) /\ ValueGood(items[j])

----------------------------------------------------------------------------
(* Claims about query_sensor_data and the handlers, under SerialSpec *)

\* The query in slot i has returned its list
Answered(i) ==
  /\ IsQuery(req[i])
  /\ req[i].pc \in {"close", "done"}
  /\ req[i].status # 400
  /\ req[i].out.failed = "none"

QueryOf(i) == The(req[i].data)
ResultsOf(i) == req[i].out.results

InRange(r, q) ==
  /\ The(q.start_date) <= r.timestamp
  /\ r.timestamp <= The(q.end_date)

PassesSensorFilter(r, q) ==
  q.sensor_ids = None
    \/ \E k \in DOMAIN The(q.sensor_ids) : The(q.sensor_ids)[k] = r.sensor_id

\* The stored rows of sensor s in the range of q that hold a value of m
RowsWith(s, m, q) ==
  { r \in store : r.sensor_id = s /\ InRange(r, q) /\ Column(r, m) # None }

Num(r, m) == The(Column(r, m))[2]

RECURSIVE SumOver(_, _)
SumOver(rows, m) ==
  IF rows = {} THEN 0
  ELSE LET r == CHOOSE x \in rows : \A y \in rows : Num(y, m) <= Num(x, m)
       IN SumOver(rows \ {r}, m) + Num(r, m)

\* v is statistic S of column m over rows
IsStatisticOf(v, S, m, rows) ==
  CASE S = StatMin ->
         /\ v[2] = 1
         /\ \E r \in rows : Num(r, m) = v[1]
         /\ \A r \in rows : v[1] <= Num(r, m)
    [] S = StatMax ->
         /\ v[2] = 1
         /\ \E r \in rows : Num(r, m) = v[1]
         /\ \A r \in rows : v[1] >= Num(r, m)
    [] S = StatSum -> v = <<SumOver(rows, m), 1>>
    [] S = StatAvg ->
         /\ v[2] > 0
         /\ v[1] * Cardinality(rows) = SumOver(rows, m) * v[2]

\* C1: every MetricResult returned for sensor s and metric m carries the
\* query's statistic S and, as value, S of exactly the non-null values of
\* column m over the stored rows of s with start <= timestamp <= end.
C1_ValueIsStatisticOverRange ==
  \A i \in Slots : Answered(i) =>
    \A k \in DOMAIN ResultsOf(i) :
      \A j \in DOMAIN ResultsOf(i)[k].metrics :
        LET mr == ResultsOf(i)[k].metrics[j]
            rows == RowsWith(ResultsOf(i)[k].sensor_id, mr.metric, QueryOf(i))
        IN /\ mr.statistic = QueryOf(i).statistic
           /\ mr.statistic \in StatisticValues
           /\ rows # {}
           /\ IsStatisticOf(mr.value, mr.statistic, mr.metric, rows)

\* an average of two in-range rows that is no whole number, with both
\* bounds of the range hit
C1_Witness ==
  \E i \in Slots :
    /\ Answered(i)
    /\ QueryOf(i).statistic = StatAvg
    /\ \E k \in DOMAIN ResultsOf(i) :
         /\ ResultsOf(i)[k].metrics[1] =
              MetricResult(T("temperature"), <<1, 2>>, StatAvg)
         /\ \E r1, r2 \in RowsWith(ResultsOf(i)[k].sensor_id,
                                    T("temperature"), QueryOf(i)) :
              /\ r1.timestamp = The(QueryOf(i).start_date)
              /\ r2.timestamp = The(QueryOf(i).end_date)

\* The row a SensorData is stored as
RowMatches(r, data) ==
  /\ r.sensor_id = data.sensor_id
  /\ r.timestamp = data.timestamp
  /\ r.location = data.location
  /\ r.sensor_type = data.sensor_type
  /\ \A m \in FloatColumns :
       /\ \A k \in DOMAIN data.metrics :
            data.metrics[k][1] = m => Column(r, m) = Some(data.metrics[k][2])
       /\ (\A k \in DOMAIN data.metrics : data.metrics[k][1] # m)
            => Column(r, m) = None

Asks(q, m) ==
  q.metrics = <<>> \/ \E k \in DOMAIN q.metrics : q.metrics[k] = m

\* C2: an ingestion answered 201 has stored the metric values of its
\* payload unchanged, and a query that returns, whose range covers a
\* reading and whose sensor and metric filters include it, gives for a
\* metric of which that reading is the only one of its sensor in the range
\* a MetricResult with the reading's value, whatever the statistic.
C2_SingleReadingComesBackUnchanged ==
  /\ \A i \in Slots :
       (req[i].kind = "ingest" /\ req[i].status = 201) =>
         \E r \in store : RowMatches(r, The(req[i].data))
  /\ \A i \in Slots : Answered(i) =>
       \A r \in store : \A m \in FloatColumns :
         ( /\ InRange(r, QueryOf(i))
           /\ PassesSensorFilter(r, QueryOf(i))
           /\ Asks(QueryOf(i), m)
           /\ RowsWith(r.sensor_id, m, QueryOf(i)) = {r} )
         => \E k \in DOMAIN ResultsOf(i) :
              /\ ResultsOf(i)[k].sensor_id = r.sensor_id
              /\ \E j \in DOMAIN ResultsOf(i)[k].metrics :
                   ResultsOf(i)[k].metrics[j] =
                     MetricResult(m, <<Num(r, m), 1>>, QueryOf(i).statistic)

\* the single reading of a sensor comes back as its sum
C2_Witness ==
  \E i \in Slots :
    /\ Answered(i)
    /\ QueryOf(i).statistic = StatSum
    /\ \E r \in store :
         /\ InRange(r, QueryOf(i))
         /\ RowsWith(r.sensor_id, T("humidity"), QueryOf(i)) = {r}
         /\ \E k \in DOMAIN ResultsOf(i) :
              /\ ResultsOf(i)[k].sensor_id = r.sensor_id
              /\ \E j \in DOMAIN ResultsOf(i)[k].metrics :
                   ResultsOf(i)[k].metrics[j] =
                     MetricResult(T("humidity"), <<1, 1>>, StatSum)

\* The metrics a query can report: the requested names (all of MetricType
\* when none is requested) that name a metric column, in requested order
ReportableMetrics(q) ==
  LET asked == IF Len(q.metrics) = 0 THEN MetricTypeValues ELSE q.metrics
  IN { k \in DOMAIN asked : IsMetricType(asked[k]) }

AskedAt(q, k) ==
  IF Len(q.metrics) = 0 THEN MetricTypeValues[k] ELSE q.metrics[k]

\* C3: in every list returned, each result has a non-empty metrics list;
\* it holds a MetricResult for a requested metric exactly when its sensor
\* has an in-range row with a value of that metric, one at most per metric
\* and in the order of the requested metrics; every sensor passing the
\* filter with such a row appears once, and no other sensor appears.
C3_ResultShape ==
  \A i \in Slots : Answered(i) =>
    LET q == QueryOf(i)
        res == ResultsOf(i)
    IN /\ \A k \in DOMAIN res :
            /\ res[k].metrics # <<>>
            /\ \A j \in DOMAIN res[k].metrics :
                 \E a \in ReportableMetrics(q) :
                   AskedAt(q, a) = res[k].metrics[j].metric
            /\ \A a \in ReportableMetrics(q) :
                 (\E j \in DOMAIN res[k].metrics :
                     res[k].metrics[j].metric = AskedAt(q, a))
                 <=> RowsWith(res[k].sensor_id, AskedAt(q, a), q) # {}
            /\ \A j1, j2 \in DOMAIN res[k].metrics :
                 j1 < j2 =>
                   \E a1, a2 \in ReportableMetrics(q) :
                     /\ a1 < a2
                     /\ AskedAt(q, a1) = res[k].metrics[j1].metric
                     /\ AskedAt(q, a2) = res[k].metrics[j2].metric
       /\ \A k1, k2 \in DOMAIN res :
            k1 # k2 => res[k1].sensor_id # res[k2].sensor_id
       /\ \A r \in store :
            ( /\ PassesSensorFilter(r, q)
              /\ \E a \in ReportableMetrics(q) :
                   r \in RowsWith(r.sensor_id, AskedAt(q, a), q) )
            => \E k \in DOMAIN res : res[k].sensor_id = r.sensor_id

\* one sensor reported with a temperature of 0 and no humidity, the other
\* sensor, whose only row is out of range, not reported
C3_Witness ==
  \E i \in Slots :
    /\ Answered(i)
    /\ QueryOf(i).metrics = <<T("voltage"), T("humidity"), T("temperature")>>
    /\ Len(ResultsOf(i)) = 1
    /\ ResultsOf(i)[1].metrics =
         <<MetricResult(T("temperature"), <<0, 1>>, QueryOf(i).statistic)>>
    /\ \E r \in store :
         /\ r.sensor_id # ResultsOf(i)[1].sensor_id
         /\ PassesSensorFilter(r, QueryOf(i))
         /\ ~InRange(r, QueryOf(i))

\* The query in slot i has been through the store
Executed(i) ==
  /\ IsQuery(req[i])
  /\ req[i].pc \in {"close", "done"}
  /\ req[i].status # 400

\* ... and the store has answered it
StoreAnswered(i) == Executed(i) /\ req[i].out.failed # "storage_failure"

HasForeignKey(input) ==
  /\ input.body # None
  /\ \E k \in DOMAIN The(input.body).metrics :
       ~IsMetricType(The(input.body).metrics[k][1])

\* C4 as claimed: a requested name that is no MetricType member never
\* makes the query fail and is never reported; the names that reach the
\* statement are MetricType members only; and an ingestion whose payload
\* has such a key is rejected.
C4_Original_ForeignNamesAreDropped ==
  /\ \A i \in Slots : StoreAnswered(i) =>
       /\ \A k \in DOMAIN EffectiveMetrics(QueryOf(i)) :
            IsMetricType(EffectiveMetrics(QueryOf(i))[k])
       /\ req[i].out.failed = "none"
       /\ \A k \in DOMAIN ResultsOf(i) :
            \A j \in DOMAIN ResultsOf(i)[k].metrics :
              IsMetricType(ResultsOf(i)[k].metrics[j].metric)
  /\ \A i \in Slots :
       (req[i].kind = "ingest" /\ HasForeignKey(The(req[i].input)))
         => req[i].status = 400

\* The requests ingest_sensor_data must turn down
InvalidIngest(input) ==
  \/ input.content_type \notin {JsonType, JsonTypeWithCharset}
  \/ input.body = None
  \/ ViolatedChecks([sensor_id |-> input.sensor_id, payload |-> The(input.body)])
       # {}

\* C7: an ingestion request with a wrong content type, an undecodable body
\* or a payload failing a check is answered 400 at once: no session is
\* opened, store_sensor_data is not called, the table is unchanged.
C7_RejectedBeforeStorage ==
  [][ \A i \in Slots :
        ( /\ req[i].pc = "idle"
          /\ req'[i].kind = "ingest"
          /\ InvalidIngest(The(req'[i].input)) )
        => /\ req'[i].pc = "done"
           /\ req'[i].status = 400
           /\ req'[i].opened = 0
           /\ req'[i].calls = 0
           /\ req'[i].out.statements = 0
           /\ sessions' = sessions
           /\ store' = store ]_vars

\* a JSON request with a non-finite metric value turned down while the
\* table holds a row
C7_Witness ==
  \E i \in Slots :
    /\ req[i].kind = "ingest"
    /\ req[i].status = 400
    /\ The(req[i].input).content_type = JsonType
    /\ The(req[i].input).body # None
    /\ ViolatedChecks([sensor_id |-> The(req[i].input).sensor_id,
                        payload |-> The(The(req[i].input).body)]) = {6}
    /\ store # {}
    /\ sessions = {}

\* C8: when the store fails a validated ingestion, the table is left as it
\* was, the request is answered 500 after that single attempt, and 201 is
\* answered only for a request whose row the table holds.
C8_FailedStoreGives500 ==
  [][ \A i \in Slots : req[i].kind = "ingest" =>
        /\ (req[i].pc = "commit" /\ req'[i].pc # "commit") =>
             /\ req'[i].pc = "close"
             /\ req'[i].out.statements = 1
             /\ req'[i].out.failed # "none" => store' = store
             /\ req'[i].out.failed = "none" =>
                  /\ \E r \in store' \ store : RowMatches(r, The(req[i].data))
                  /\ Cardinality(store') = Cardinality(store) + 1
        /\ (req[i].pc = "close" /\ req'[i].pc # "close") =>
             /\ req'[i].pc = "done"
             /\ req'[i].calls = 1
             /\ store' = store
             /\ req[i].out.failed # "none" => req'[i].status = 500
             /\ req'[i].status = 201 =>
                  \E r \in store' : RowMatches(r, The(req[i].data))
             /\ req'[i].status \in {201, 500} ]_vars

\* a request answered 500 because the store failed, the table holding no
\* row with its key
C8_Witness ==
  \E i \in Slots :
    /\ req[i].kind = "ingest"
    /\ req[i].pc = "done"
    /\ req[i].status = 500
    /\ req[i].out.failed = "storage_failure"
    /\ req[i].calls = 1
    /\ store # {}
    /\ \A r \in store :
         ~(r.sensor_id = The(req[i].data).sensor_id
            /\ r.timestamp = The(req[i].data).timestamp)

\* Every requested name is unknown to the storage record
NothingEffective(q) ==
  /\ Len(q.metrics) > 0
  /\ \A k \in DOMAIN q.metrics :
       q.metrics[k] \notin FloatColumns \cup TextColumns \cup TimeColumns

\* C10 as claimed: with an empty effective metric set the query returns
\* the empty list without issuing a statement to the store.
C10_Original_NoStatementIssued ==
  \A i \in Slots : (StoreAnswered(i) /\ NothingEffective(QueryOf(i))) =>
    /\ req[i].out.failed = "none"
    /\ ResultsOf(i) = <<>>
    /\ req[i].out.statements = 0

\* C10 as amended: with an empty effective metric set the query still
\* opens a session and issues one statement, which selects sensor_id
\* alone; when the store answers, the list returned is empty whatever the
\* table holds, and when the store fails, the query fails.
C10_EmptyListAfterOneStatement ==
  \A i \in Slots : (Executed(i) /\ NothingEffective(QueryOf(i))) =>
    /\ req[i].opened = 1
    /\ req[i].out.statements = 1
    /\ req[i].out.failed \in {"none", "storage_failure"}
    /\ ResultsOf(i) = <<>>

\* only an unknown name requested, rows in range, the empty list returned
C10_Witness ==
  \E i \in Slots :
    /\ Answered(i)
    /\ QueryOf(i).metrics = <<T("voltage")>>
    /\ \E r \in store :
         InRange(r, QueryOf(i)) /\ PassesSensorFilter(r, QueryOf(i))
    /\ ResultsOf(i) = <<>>
    /\ req[i].out.statements = 1

----------------------------------------------------------------------------
(* Claims about concurrent ingestion, under Spec *)

SameKey(a, b) == a.sensor_id = b.sensor_id /\ a.timestamp = b.timestamp

Committed(i) ==
  /\ req[i].kind = "ingest"
  /\ req[i].pc \in {"close", "done"}
  /\ req[i].calls = 1
  /\ req[i].out.failed = "none"

\* C9: in every reachable state the table holds at most one row per
\* (sensor_id, timestamp); a successful ingestion adds exactly one row and
\* a failed one none, no row is ever altered or removed; and of the
\* ingestions in flight with the same key at most one succeeds.
C9_OneRowPerKey ==
  /\ [](\A r1, r2 \in store : SameKey(r1, r2) => r1 = r2)
  /\ [](\A i, j \in Slots :
          (i # j /\ Committed(i) /\ Committed(j))
            => ~SameKey(The(req[i].data), The(req[j].data)))
  /\ [][ /\ store \subseteq store'
         /\ \A i \in Slots :
              (req[i].kind = "ingest" /\ req[i].pc = "commit"
                 /\ req'[i].pc = "close") =>
                IF req'[i].out.failed = "none"
                  THEN Cardinality(store') = Cardinality(store) + 1
                  ELSE store' = store ]_vars

\* two overlapping ingestions of one key with different values: one is
\* answered 201, the other 500, and the table holds the first one's row
C9_Witness ==
  \E i, j \in Slots :
    /\ req[i].kind = "ingest" /\ req[i].status = 201
    /\ req[j].kind = "ingest" /\ req[j].status = 500
    /\ req[j].out.failed = "integrity_error"
    /\ SameKey(The(req[i].data), The(req[j].data))
    /\ The(req[i].data).metrics # The(req[j].data).metrics
    /\ \E r \in store : RowMatches(r, The(req[i].data))
    /\ Cardinality(store) = 1

----------------------------------------------------------------------------
(* Claims about the parameter parsers, under ParseSpec *)

Called(fn) == vout # Pending /\ vin.fn = fn

CasingsOf(statistic) ==
  CASE statistic = StatAvg -> {"average", "Average", "AVERAGE", "aVeRaGe"}
    [] statistic = StatMin -> {"min", "Min", "MIN", "mIn"}
    [] statistic = StatMax -> {"max", "Max", "MAX"}
    [] statistic = StatSum -> {"sum", "Sum", "SUM"}

AbsentOrEmpty(raw) == raw = None \/ raw = Some(EmptyText)

\* The raw text is the word w with nothing but whitespace around it
IsPadded(raw, w) ==
  \E k \in DOMAIN raw :
    raw[k] = w /\ \A j \in DOMAIN raw : j # k => IsSpace(raw[j])

\* The statistic the claim gives a raw value that is exactly one of the
\* four names in some casing: the set holding it, or the empty set
ExactStat(raw) ==
  { S \in {StatAvg, StatMin, StatMax, StatSum} :
      \/ AbsentOrEmpty(raw) /\ S = StatAvg
      \/ ~AbsentOrEmpty(raw) /\ \E w \in CasingsOf(S) : The(raw) = <<w>> }

\* The same, whitespace around the name allowed
PaddedStat(raw) ==
  { S \in {StatAvg, StatMin, StatMax, StatSum} :
      \/ AbsentOrEmpty(raw) /\ S = StatAvg
      \/ ~AbsentOrEmpty(raw) /\ \E w \in CasingsOf(S) : IsPadded(The(raw), w) }

\* C11 as claimed: parse_stat gives the Statistic of every casing variant
\* of the four names, average for an absent or empty value (a request
\* without stat included), and fails for every other non-empty string.
C11_Original_OnlyExactNames ==
  /\ Called("parse_stat") => vout.value = ExactStat(vin.raw)
  /\ \A i \in Slots : (IsQuery(req[i]) /\ req[i].pc # "idle") =>
       /\ ExactStat(The(req[i].input).stat) = {} => req[i].status = 400
       /\ req[i].data # None =>
            {QueryOf(i).statistic} = ExactStat(The(req[i].input).stat)

\* C11 as amended: parse_stat trims the value before it lower-cases it;
\* every casing variant of the four names, with or without whitespace
\* around it, gives the corresponding Statistic; an absent or empty value
\* gives average, also when the request has no stat parameter; every other
\* non-empty string, whitespace alone included, fails.
C11_TrimmedNameDecides ==
  /\ Called("parse_stat") => vout.value = PaddedStat(vin.raw)
  /\ \A i \in Slots : (IsQuery(req[i]) /\ req[i].pc # "idle") =>
       /\ PaddedStat(The(req[i].input).stat) = {} => req[i].status = 400
       /\ req[i].data # None =>
            {QueryOf(i).statistic} = PaddedStat(The(req[i].input).stat)

\* " mIn<tab>" parsed as min, and a request without stat asking for average
C11_Witness ==
  /\ Called("parse_stat")
  /\ vin.raw = Some(<<" ", "mIn", "\t">>)
  /\ vout.value = Some(StatMin)
  /\ IsQuery(req[1]) /\ req[1].data # None
  /\ The(req[1].input).stat = None
  /\ QueryOf(1).statistic = StatAvg

\* C12: compute_date_range_from_days(days, now) gives (now - days, now) for
\* every days from 1 to 31, (now - 1, now) when days is absent, and fails,
\* giving no range, for every days below 1 or above 31.
C12_DateRangeFromDays ==
  Called("compute_date_range_from_days") =>
    IF vin.days = None
      THEN vout.value = Some(<<vin.clock - 1, vin.clock>>)
    ELSE IF The(vin.days) >= 1 /\ The(vin.days) <= 31
      THEN vout.value = Some(<<vin.clock - The(vin.days), vin.clock>>)
    ELSE vout.value = None

\* days = 31 at instant 1 gives the range from -30 to 1
C12_Witness ==
  /\ Called("compute_date_range_from_days")
  /\ vin.days = Some(31) /\ vin.clock = 1
  /\ vout.value = Some(<<0 - 30, 1>>)

\* The tokens of a raw comma-separated value: for each stretch between two
\* commas (or an end of the text) that holds something besides whitespace,
\* the position where that something starts and the trimmed text
Tokens(raw) ==
  { [at |-> c, text |-> SubSeq(raw, c, d)] :
      <<c, d>> \in { p \in (DOMAIN raw) \X (DOMAIN raw) :
        /\ p[1] <= p[2]
        /\ \A k \in p[1]..p[2] : raw[k] # ","
        /\ ~IsSpace(raw[p[1]]) /\ ~IsSpace(raw[p[2]])
        /\ \E a \in 1..p[1] :
             /\ a = 1 \/ raw[a - 1] = ","
             /\ \A k \in a..(p[1] - 1) : IsSpace(raw[k])
        /\ \E b \in p[2]..Len(raw) :
             /\ b = Len(raw) \/ raw[b + 1] = ","
             /\ \A k \in (p[2] + 1)..b : IsSpace(raw[k]) } }

RawTokens(raw) == IF raw = None THEN {} ELSE Tokens(The(raw))

FirstAt(tokens, text) ==
  CHOOSE c \in { t.at : t \in tokens } :
    /\ \E t \in tokens : t.at = c /\ t.text = text
    /\ \A t \in tokens : t.text = text => c <= t.at

\* list holds each distinct token once, in first-occurrence order
IsTokenList(list, tokens) ==
  /\ SeqRange(list) = { t.text : t \in tokens }
  /\ \A i, j \in DOMAIN list : i # j => list[i] # list[j]
  /\ \A i \in DOMAIN list : list[i] # EmptyText /\ Strip(list[i]) = list[i]
  /\ \A i, j \in DOMAIN list :
       i < j => FirstAt(tokens, list[i]) < FirstAt(tokens, list[j])

\* C13: both parsers return the distinct non-empty trimmed tokens of the
\* comma-separated value, each once, in first-occurrence order; when there
\* is no token parse_sensors_param returns None and parse_metrics_param
\* returns the empty list.
C13_DistinctTokensInOrder ==
  /\ Called("parse_sensors_param") =>
       IF RawTokens(vin.raw) = {} THEN vout.value = None
       ELSE /\ vout.value # None
            /\ IsTokenList(The(vout.value), RawTokens(vin.raw))
  /\ Called("parse_metrics_param") =>
       /\ Len(vout.value) = Cardinality({ t.text : t \in RawTokens(vin.raw) })
       /\ IsTokenList(vout.value, RawTokens(vin.raw))

\* "s2,s1,s2" parsed by parse_metrics_param
C13_Witness ==
  /\ Called("parse_metrics_param")
  /\ vin.raw = Some(<<"s2", ",", "s1", ",", "s2">>)
  /\ vout.value = <<T("s2"), T("s1")>>

\* C19: get_date_filter returns (start, end), end being end_date when set
\* and the current instant otherwise, start being start_date when set and
\* end minus one day otherwise; the range a request's statement uses is
\* the one compute_date_range_from_days gave the handler.
C19_DateFilterDefaults ==
  /\ Called("get_date_filter") =>
       LET end == IF vin.end_date = None THEN vin.clock ELSE The(vin.end_date)
           start == IF vin.start_date = None THEN end - 1
                    ELSE The(vin.start_date)
       IN vout.value = <<start, end>>
  /\ \A i \in Slots : (IsQuery(req[i]) /\ req[i].data # None) =>
       LET used == Statement(QueryOf(i), now)
           back == IF The(req[i].input).days = None THEN 1
                   ELSE The(The(req[i].input).days)
       IN /\ used.end_date = The(QueryOf(i).end_date)
          /\ used.start_date = The(QueryOf(i).start_date)
          /\ used.end_date <= now
          /\ used.start_date = used.end_date - back

\* no start, an end that is not the current instant; and a request whose
\* range was computed before the clock moved
C19_Witness ==
  /\ Called("get_date_filter")
  /\ vin.start_date = None /\ vin.end_date = Some(0 - 2) /\ vin.clock = 1
  /\ vout.value = <<0 - 3, 0 - 2>>
  /\ IsQuery(req[1]) /\ req[1].pc = "execute"
  /\ The(req[1].input).days = Some(2)
  /\ The(QueryOf(1).end_date) < now

----------------------------------------------------------------------------
(* Claims about list_sensor_ids and the stored rows *)

\* The sensor ids of the model, in ascending lexical order
LexicalOrder == << <<" ", "s1">>, T("s1"), T("s2") >>

PlaceIn(order, text) == CHOOSE k \in DOMAIN order : order[k] = text

Listed(i) ==
  /\ req[i].kind = "list"
  /\ req[i].pc \in {"close", "done"}
  /\ req[i].out.failed = "none"

\* C14: list_sensor_ids returns exactly the distinct sensor_id values of
\* the stored rows, each once, in ascending lexical order.
C14_DistinctIdsAscending ==
  \A i \in Slots : Listed(i) =>
    /\ SeqRange(ResultsOf(i)) = { r.sensor_id : r \in store }
    /\ \A j, k \in DOMAIN ResultsOf(i) :
         j < k => PlaceIn(LexicalOrder, ResultsOf(i)[j])
                    < PlaceIn(LexicalOrder, ResultsOf(i)[k])

\* two rows of s2 and s1 (s2 may have been stored first): s1 listed first
C14_Witness ==
  \E i \in Slots :
    /\ Listed(i)
    /\ ResultsOf(i) = << <<" ", "s1">>, T("s2") >>

\* C15: every SensorQueryResult of a query carries the end of the query's
\* range as its timestamp, the same for all results of the query, whatever
\* the timestamps of the rows behind it.
C15_TimestampIsEndOfRange ==
  \A i \in Slots : Answered(i) =>
    \A k \in DOMAIN ResultsOf(i) :
      ResultsOf(i)[k].timestamp = The(QueryOf(i).end_date)

\* results for two sensors whose rows have a timestamp other than the end
\* of the range
C15_Witness ==
  \E i \in Slots :
    /\ Answered(i)
    /\ Len(ResultsOf(i)) = 2
    /\ \A r \in store : r.timestamp # The(QueryOf(i).end_date)
    /\ ResultsOf(i)[1].timestamp = ResultsOf(i)[2].timestamp

\* C16: a committed row keeps all its column values and is never removed;
\* query_sensor_data and list_sensor_ids leave the stored rows as they are,
\* and the only change an ingestion makes is to add its own row.
C16_StoredRowsImmutable ==
  [][ /\ store \subseteq store'
      /\ \A i \in Slots :
           (req[i].kind \in {"query_multi", "query_single", "list"}
              /\ req'[i] # req[i]) => store' = store
      /\ store' # store =>
           \E i \in Slots :
             /\ req[i].kind = "ingest" /\ req[i].pc = "commit"
             /\ req'[i].pc = "close" /\ req'[i].out.failed = "none"
             /\ \E r \in store' :
                  /\ r \notin store
                  /\ store' = store \cup {r}
                  /\ RowMatches(r, The(req[i].data)) ]_vars

\* two rows stored, a list and a query answered, and an ingestion of a
\* stored key refused
C16_Witness ==
  /\ Cardinality(store) = 2
  /\ \E i, j \in Slots :
       /\ Listed(i) /\ Len(ResultsOf(i)) = 2
       /\ req[j].kind = "ingest" /\ req[j].out.failed = "integrity_error"

----------------------------------------------------------------------------
(* Claims about sessions *)

InStorageCall(r) == r.pc \in {"commit", "execute", "close"}

\* C17: each storage operation opens one session of its own when it starts
\* and closes it before it returns or raises; no session is open in a
\* handler that is not inside a storage operation, so none is held after a
\* request has been answered.
C17_SessionScopedToCall ==
  /\ [](\A i \in Slots :
          /\ i \in sessions <=> InStorageCall(req[i])
          /\ InStorageCall(req[i]) => req[i].opened = 1 /\ req[i].calls = 1
          /\ req[i].pc = "done" => req[i].opened = req[i].calls)
  /\ [][ \A i \in Slots :
           /\ (i \notin sessions /\ i \in sessions') =>
                /\ req[i].pc = "idle"
                /\ req'[i].pc \in {"commit", "execute"}
           /\ (req[i].pc = "close" /\ req'[i] # req[i]) =>
                /\ i \notin sessions'
                /\ req'[i].pc = "done"
                /\ req'[i].status \in {200, 201, 500}
           /\ (req[i].pc = "done" /\ req'[i] # req[i]) =>
                i \notin sessions /\ i \notin sessions' ]_vars

\* a query that failed in the store and an ingestion that was stored, both
\* answered, no session left
C17_Witness ==
  /\ sessions = {}
  /\ \E i, j \in Slots :
       /\ IsQuery(req[i]) /\ req[i].pc = "done" /\ req[i].status = 500
       /\ req[i].opened = 1
       /\ req[j].kind = "ingest" /\ req[j].pc = "done" /\ req[j].status = 201
       /\ req[j].opened = 1

----------------------------------------------------------------------------
(* Claims about the sensor filter and about what ingestion stores, under   *)
(* SerialSpec                                                              *)

\* r holds a value of a metric the query reports
Qualifies(r, q) ==
  /\ InRange(r, q)
  /\ \E a \in ReportableMetrics(q) : Column(r, AskedAt(q, a)) # None

\* C18: without sensor_ids every sensor with qualifying in-range data is in
\* the result; with sensor_ids every result is of a sensor in that set;
\* no sensor appears twice; the single-sensor endpoint returns at most one
\* result, and it is of the sensor of the path.
C18_SensorFilter ==
  \A i \in Slots : Answered(i) =>
    LET q == QueryOf(i)
        res == ResultsOf(i)
    IN /\ q.sensor_ids = None =>
            \A r \in store : Qualifies(r, q) =>
              \E k \in DOMAIN res : res[k].sensor_id = r.sensor_id
       /\ q.sensor_ids # None =>
            /\ The(q.sensor_ids) # <<>>
            /\ \A k \in DOMAIN res :
                 res[k].sensor_id \in SeqRange(The(q.sensor_ids))
       /\ \A k1, k2 \in DOMAIN res :
            k1 # k2 => res[k1].sensor_id # res[k2].sensor_id
       /\ req[i].kind = "query_single" =>
            /\ Len(res) <= 1
            /\ \A k \in DOMAIN res :
                 Some(res[k].sensor_id) = The(req[i].input).sensors

\* the single-sensor endpoint answering for s1 alone while s2 has a
\* qualifying row as well
C18_Witness ==
  \E i \in Slots :
    /\ Answered(i)
    /\ req[i].kind = "query_single"
    /\ Len(ResultsOf(i)) = 1
    /\ ResultsOf(i)[1].sensor_id = T("s1")
    /\ \E r \in store : r.sensor_id = T("s2") /\ Qualifies(r, QueryOf(i))

PayloadOf(i) == The(The(req[i].input).body)

\* The value the mapping of payload p holds under key m, None without it
Ingested(p, m) ==
  IF \E k \in DOMAIN p.metrics : p.metrics[k][1] = m
    THEN Some(p.metrics[CHOOSE k \in DOMAIN p.metrics : p.metrics[k][1] = m][2])
    ELSE None

\* C20: every row stored through the ingestion endpoint has a timestamp
\* (the payload's, or the instant of creation), a non-blank sensor_id,
\* location and sensor_type, and at least one metric value; its metric
\* values are exactly those of the ingested mapping; and an all-metrics
\* query whose range and sensor filter cover a row returns that sensor.
C20_StoredRowsAreWellFormed ==
  /\ [](\A r \in store :
          /\ r.timestamp \in Int
          /\ NonBlank(r.sensor_id) /\ NonBlank(r.location)
          /\ NonBlank(r.sensor_type)
          /\ \E m \in FloatColumns : Column(r, m) # None)
  /\ [](\A i \in Slots : (Answered(i) /\ QueryOf(i).metrics = <<>>) =>
          \A r \in store :
            (InRange(r, QueryOf(i)) /\ PassesSensorFilter(r, QueryOf(i))) =>
              \E k \in DOMAIN ResultsOf(i) :
                ResultsOf(i)[k].sensor_id = r.sensor_id)
  /\ [][ \A r \in store' \ store :
           \E i \in Slots :
             /\ req[i].kind = "ingest" /\ req[i].pc = "commit"
             /\ r.sensor_id = The(req[i].input).sensor_id
             /\ r.location = PayloadOf(i).location
             /\ r.sensor_type = PayloadOf(i).sensor_type
             /\ r.timestamp = IF PayloadOf(i).timestamp = None THEN now
                              ELSE The(PayloadOf(i).timestamp)
             /\ \A k \in DOMAIN PayloadOf(i).metrics :
                  PayloadOf(i).metrics[k][1] \in FloatColumns
             /\ \A m \in FloatColumns :
                  Column(r, m) = Ingested(PayloadOf(i), m) ]_vars

\* a row ingested without a timestamp, with humidity alone, and an
\* all-metrics query over all sensors that returns its sensor
C20_Witness ==
  /\ \E r \in store :
       /\ r.timestamp = now
       /\ r.temperature = None /\ r.pressure = None
       /\ r.humidity = Some(Fin(1))
  /\ \E i \in Slots :
       /\ Answered(i)
       /\ QueryOf(i).metrics = <<>> /\ QueryOf(i).sensor_ids = None
       /\ Len(ResultsOf(i)) = 1
       /\ Cardinality(store) = 1

----------------------------------------------------------------------------
(* Claim about the widest range of a query, under WindowSpec (the clock    *)
(* stands still: now is the instant of every request)                      *)

\* The stored rows dated within the 31 days up to the request
Within31Days == { r \in store : now - 31 <= r.timestamp /\ r.timestamp <= now }

\* C21: in every response of the two query endpoints, each value is the
\* statistic of rows dated from now - 31 days to now alone, a sensor
\* without such a row is not reported, and the response is the one the
\* same request gets when the store holds no row dated later than now or
\* more than 31 days before it.
C21_OnlyLast31DaysContribute ==
  \A i \in Slots : Answered(i) =>
    /\ \A k \in DOMAIN ResultsOf(i) :
         \A j \in DOMAIN ResultsOf(i)[k].metrics :
           LET mr == ResultsOf(i)[k].metrics[j]
               rows == { r \in Within31Days :
                           /\ r \in RowsWith(ResultsOf(i)[k].sensor_id,
                                             mr.metric, QueryOf(i)) }
           IN /\ rows # {}
              /\ IsStatisticOf(mr.value, mr.statistic, mr.metric, rows)
    /\ \E groups \in GroupOrders(Within31Days, Statement(QueryOf(i), now)) :
         ResultsOf(i) =
           query_sensor_data(Within31Days, QueryOf(i), now, TRUE, groups).results

\* days=31: the row dated 31 days back counts, the rows dated 32 days back
\* and one day ahead do not
C21_Witness ==
  \E i \in Slots :
    /\ Answered(i)
    /\ The(req[i].input).days = Some(31)
    /\ \E r \in store : r.timestamp = now - 31 /\ r.temperature = Some(Fin(1))
    /\ \E r \in store : r.timestamp \in {now - 32, now + 1}
                          /\ r.temperature = Some(Fin(3))
                          /\ r.sensor_id = T("s1")
    /\ Len(ResultsOf(i)) = 1
    /\ ResultsOf(i)[1].sensor_id = T("s1")
    /\ ResultsOf(i)[1].metrics[1].value = <<1, 1>>

====
